---- MODULE Spec2Model ----
(***************************************************************************)
(* Model of the relay server of simple-teledildonics-app (src/server.ts). *)
(* One node.js event loop serves three websocket endpoints: /forwarder    *)
(* (Sharer), /status (Status) and / (Controller).  Every action below is   *)
(* one callback of server.ts run to completion; the Controller's message   *)
(* handler is two actions, split at its await.                             *)
(***************************************************************************)
EXTENDS Integers, Sequences, FiniteSets, TLC

\* ------------------------------------------------------------------------
\* Bounds
\* ------------------------------------------------------------------------
\* number of websocket transports that connect during a run
MaxTransports == 3
\* number of protocol batches of one Controller transport that the relay
\* passes to the engine
MaxMsgs == 1

\* the transports of the model, and those of them that connect in Spec
Transports == 1..(MaxTransports + 1)
Callers == 1..MaxTransports

\* ------------------------------------------------------------------------
\* Values
\* ------------------------------------------------------------------------
\* process.env.X when the variable is not set
Unset == "<undefined>"
\* values of process.env.LOCAL_PASSWORD / REMOTE_PASSWORD at start: unset,
\* empty, or set; the two passwords that are set are different strings
LocalSecrets == {Unset, "", "a"}
RemoteSecrets == {Unset, "", "b"}
\* inbound frames: two strings that can be a secret, and a batch holding one
\* RequestServerInfo message ("hs")
Inbound == {"a", "b", "hs"}
\* a batch holding another message followed by a RequestServerInfo message
LongBatches == {"cmd,hs"}
\* frames FromJSON turns into a message array; any other frame makes it throw
Batches == {"hs"} \cup LongBatches
\* Type of the handshake message
RequestServerInfo == "RequestServerInfo"
\* the message array of a batch, by the Type of each message
FromJSON(message) ==
    IF message = "hs"
    THEN <<RequestServerInfo>>
    ELSE <<"cmd", RequestServerInfo>>
\* the frame that answers message number `at` of batch number `batch` of a
\* Controller transport: the answer carries the Id of its message
Answer(batch, at) == "[" \o ToString(batch) \o "." \o ToString(at) \o "]"

VARIABLES
    LOCAL_PASSWORD,       \* process.env.LOCAL_PASSWORD
    REMOTE_PASSWORD,      \* process.env.REMOTE_PASSWORD
    forwarder_connected,  \* Sharer slot
    status_connected,     \* Status slot
    remote_connected,     \* Controller slot
    server,               \* engine created by the latest admitted /forwarder
                          \* connection (0: not yet assigned)
    hub,                  \* status_emitter: listeners per event, in
                          \* registration order, named by their transport
    ws                    \* the websocket transports

vars == <<LOCAL_PASSWORD, REMOTE_PASSWORD, forwarder_connected,
          status_connected, remote_connected, server, hub, ws>>

\* ------------------------------------------------------------------------
\* Transports
\* ------------------------------------------------------------------------
\* no frame read yet
NoFrame == "<none>"

\* a transport that has not connected yet
NoSocket ==
    [ep |-> "none", readyState |-> "NONE", listeners |-> FALSE,
     password_sent |-> FALSE, sent |-> <<>>, bs |-> 0, awaiting |-> {},
     \* history of the transport: the first frame read from it, the batches
     \* of a Controller passed to the engine, and whether an authenticated Sharer session
     \* ended while this Status session and a Controller session were active
     \* and the times the handlers of a Controller published remote_connect
     \* and whether a frame of the session was rejected by FromJSON
     \* and whether the Status handler read a frame after the password
     first |-> NoFrame, relayed |-> 0, orphaned |-> FALSE, published |-> 0,
     dropped |-> FALSE, ignored |-> FALSE,
     \* the browser connector at the other end of the transport: the promise
     \* p its Initialize waits for, whether msgHandler is registered, and
     \* whether throwConnectError has written its error to the page
     p |-> "none", msgHandler |-> FALSE, error |-> FALSE]

\* the transport handed to an endpoint callback
NewSocket(endpoint) ==
    [NoSocket EXCEPT !.ep = endpoint, !.readyState = "OPEN"]

\* ws.close(): starts the closing handshake of an open socket; the 'close'
\* event comes later
Close(w, t) ==
    IF w[t].readyState = "OPEN"
    THEN [w EXCEPT ![t].readyState = "CLOSING"]
    ELSE w

\* ws.terminate(): destroys the socket; no frame is read from it any more,
\* its 'close' event is still to come
Terminate(w, t) ==
    IF w[t].readyState \in {"OPEN", "CLOSING"}
    THEN [w EXCEPT ![t].readyState = "TERMINATED"]
    ELSE w

\* ws.send(frame): the frame reaches the peer only on an open socket
Send(w, t, frame) ==
    IF w[t].readyState = "OPEN"
    THEN [w EXCEPT ![t].sent = Append(@, frame)]
    ELSE w

\* the socket has closed: the state in which its 'close' event is delivered.
\* Of a closed socket the relay keeps its listeners and the engine calls it
\* still awaits; the history of the socket ends here.
Closed(w, t) ==
    [w EXCEPT ![t] = [NoSocket EXCEPT !.ep = w[t].ep,
                                      !.readyState = "CLOSED",
                                      !.listeners = w[t].listeners,
                                      !.bs = w[t].bs,
                                      !.awaiting = w[t].awaiting,
                                      !.p = w[t].p,
                                      !.msgHandler = w[t].msgHandler,
                                      !.error = w[t].error]]

\* ws.removeAllListeners(): no event of the socket reaches the relay any more,
\* so a destroyed socket counts as closed from here on
RemoveAllListeners(w, t) ==
    IF w[t].readyState = "TERMINATED"
    THEN [Closed(w, t) EXCEPT ![t].listeners = FALSE]
    ELSE [w EXCEPT ![t].listeners = FALSE]

\* ------------------------------------------------------------------------
\* status_emitter
\* ------------------------------------------------------------------------
RECURSIVE CloseAll(_, _)
CloseAll(w, ls) ==
    IF ls = <<>> THEN w ELSE CloseAll(Close(w, Head(ls)), Tail(ls))

RECURSIVE SendAll(_, _, _)
SendAll(w, ls, frame) ==
    IF ls = <<>> THEN w ELSE SendAll(Send(w, Head(ls), frame), Tail(ls), frame)

\* emit("local_disconnect"): every listener InitServer registered closes its
\* Controller transport
emitLocalDisconnect(w, h) == CloseAll(w, h.local_disconnect)

\* emit("remote_connect"): every listener a StatusHandler registered sends
\* the connect frame when the Status slot is occupied
emitRemoteConnect(w, h, sc) ==
    IF sc THEN SendAll(w, h.remote_connect, "connect") ELSE w

\* emit("remote_disconnect")
emitRemoteDisconnect(w, h, sc) ==
    IF sc THEN SendAll(w, h.remote_disconnect, "disconnect") ELSE w

\* ------------------------------------------------------------------------
\* Start
\* ------------------------------------------------------------------------
IsSet(p) == p # "" /\ p # Unset

\* can_run that is content with one of the two passwords
can_run_EitherPassword == IsSet(LOCAL_PASSWORD) \/ IsSet(REMOTE_PASSWORD)

can_run == IsSet(LOCAL_PASSWORD) /\ IsSet(REMOTE_PASSWORD)

Init ==
    /\ LOCAL_PASSWORD \in LocalSecrets
    /\ REMOTE_PASSWORD \in RemoteSecrets
    /\ forwarder_connected = FALSE
    /\ status_connected = FALSE
    /\ remote_connected = FALSE
    /\ server = 0
    /\ hub = [local_disconnect |-> <<>>, remote_connect |-> <<>>,
              remote_disconnect |-> <<>>]
    /\ ws = [t \in Transports |-> NoSocket]

\* transports connect in the order of their numbers
Fresh(t) ==
    /\ can_run
    /\ ws[t].readyState = "NONE"
    /\ \A u \in Transports : u < t => ws[u].readyState # "NONE"

\* the relay listens to the events of transport t
Hears(t, endpoint) ==
    /\ ws[t].ep = endpoint
    /\ ws[t].listeners

\* a 'message' event: the peer's frames are read until the socket has closed
\* or was destroyed, also after the relay has called close() on it
HearsMessage(t, endpoint) ==
    /\ Hears(t, endpoint)
    /\ ws[t].readyState \in {"OPEN", "CLOSING"}

\* an 'error' event
HearsError(t, endpoint) ==
    /\ Hears(t, endpoint)
    /\ ws[t].readyState \in {"OPEN", "CLOSING"}

\* a 'close' event: the peer closed the socket, or the closing the relay
\* started has finished
HearsClose(t, endpoint) ==
    /\ Hears(t, endpoint)
    /\ ws[t].readyState \in {"OPEN", "CLOSING", "TERMINATED"}

\* history: the first frame read from a transport is remembered
Read(w, t, message) ==
    [w EXCEPT ![t].first = IF @ = NoFrame THEN message ELSE @]

\* history: the Status sessions that are authenticated and open while an
\* authenticated Sharer session ends and a Controller session is active
MarkOrphaned(w, s) ==
    IF /\ w[s].password_sent
       /\ \E c \in Transports : /\ w[c].ep = "remote"
                                 /\ w[c].password_sent
                                 /\ w[c].readyState = "OPEN"
    THEN [u \in Transports |->
            IF w[u].ep = "status" /\ w[u].password_sent
                                  /\ w[u].readyState = "OPEN"
            THEN [w[u] EXCEPT !.orphaned = TRUE]
            ELSE w[u]]
    ELSE w

\* FromJSON(message) throws on a frame that is no batch: the async handler
\* ends there, before it has changed anything
Drop(w, t) == [w EXCEPT ![t].dropped = TRUE]

\* the Status handler does nothing with a frame read after the password
Ignore(w, t) == [w EXCEPT ![t].ignored = TRUE]

Secrets == <<LOCAL_PASSWORD, REMOTE_PASSWORD>>

\* ------------------------------------------------------------------------
\* /forwarder: the Sharer
\* ------------------------------------------------------------------------
ForwarderConnect(t) ==
    /\ Fresh(t)
    /\ IF forwarder_connected
       THEN /\ ws' = Close([ws EXCEPT ![t] = NewSocket("forwarder")], t)
            /\ UNCHANGED server
       ELSE /\ ws' = [ws EXCEPT ![t] = [NewSocket("forwarder")
                                          EXCEPT !.listeners = TRUE]]
            /\ server' = t
    /\ UNCHANGED <<Secrets, forwarder_connected, status_connected,
                   remote_connected, hub>>

\* ForwarderMessage with a check that lets every first frame pass
ForwarderMessage_AnyPassword(t, message) ==
    /\ HearsMessage(t, "forwarder")
    /\ ~ws[t].password_sent
    /\ ws' = Send([Read(ws, t, message) EXCEPT ![t].password_sent = TRUE], t, "ok")
    /\ forwarder_connected' = TRUE
    /\ UNCHANGED <<Secrets, status_connected, remote_connected, server, hub>>

\* a batch read after the password is parsed and handed, message by message,
\* to the ForwardedDeviceManager listening on the connector, which is outside
\* this model; a frame FromJSON rejects makes the handler throw: either way
\* nothing of the relay changes
ForwarderMessage(t, message) ==
    /\ HearsMessage(t, "forwarder")
    /\ LET w0 == Read(ws, t, message) IN
       IF ~ws[t].password_sent
       THEN IF message = LOCAL_PASSWORD
            THEN /\ ws' = Send([w0 EXCEPT ![t].password_sent = TRUE], t, "ok")
                 /\ forwarder_connected' = TRUE
            ELSE /\ ws' = RemoveAllListeners(Close(w0, t), t)
                 /\ UNCHANGED forwarder_connected
       ELSE /\ ws' = IF message \in Batches THEN w0 ELSE Drop(w0, t)
            /\ UNCHANGED forwarder_connected
    /\ UNCHANGED <<Secrets, status_connected, remote_connected, server, hub>>

\* ForwarderError that leaves the listeners on the socket, so that its 'close'
\* event is handled as well
ForwarderError_KeepsListeners(t) ==
    /\ HearsError(t, "forwarder")
    /\ forwarder_connected' = FALSE
    /\ ws' = Terminate(emitLocalDisconnect(MarkOrphaned(ws, t), hub), t)
    /\ UNCHANGED <<Secrets, status_connected, remote_connected, server, hub>>

ForwarderError(t) ==
    /\ HearsError(t, "forwarder")
    /\ forwarder_connected' = FALSE
    /\ ws' = RemoveAllListeners(
                Terminate(emitLocalDisconnect(MarkOrphaned(ws, t), hub), t), t)
    /\ UNCHANGED <<Secrets, status_connected, remote_connected, server, hub>>

\* ForwarderClose without the local_disconnect event
ForwarderClose_NoCascade(t) ==
    /\ HearsClose(t, "forwarder")
    /\ forwarder_connected' = FALSE
    /\ ws' = RemoveAllListeners(Closed(MarkOrphaned(ws, t), t), t)
    /\ UNCHANGED <<Secrets, status_connected, remote_connected, server, hub>>

ForwarderClose(t) ==
    /\ HearsClose(t, "forwarder")
    /\ forwarder_connected' = FALSE
    /\ ws' = RemoveAllListeners(
                emitLocalDisconnect(Closed(MarkOrphaned(ws, t), t), hub), t)
    /\ UNCHANGED <<Secrets, status_connected, remote_connected, server, hub>>

\* ------------------------------------------------------------------------
\* /status: the Status observer
\* ------------------------------------------------------------------------
StatusConnect(t) ==
    /\ Fresh(t)
    /\ IF ~forwarder_connected \/ status_connected
       THEN ws' = Close([ws EXCEPT ![t] = NewSocket("status")], t)
       ELSE ws' = [ws EXCEPT ![t] = [NewSocket("status")
                                       EXCEPT !.listeners = TRUE]]
    /\ UNCHANGED <<Secrets, forwarder_connected, status_connected,
                   remote_connected, server, hub>>

\* StatusMessage that compares every frame with the password
StatusMessage_ChecksEveryFrame(t, message) ==
    /\ HearsMessage(t, "status")
    /\ LET w0 == Read(ws, t, message) IN
       IF message = LOCAL_PASSWORD
       THEN /\ ws' = Send([w0 EXCEPT ![t].password_sent = TRUE], t, "ok")
            /\ hub' = [hub EXCEPT
                         !.remote_connect = Append(@, t),
                         !.remote_disconnect = Append(@, t)]
            /\ status_connected' = TRUE
       ELSE /\ ws' = RemoveAllListeners(Close(w0, t), t)
            /\ UNCHANGED <<hub, status_connected>>
    /\ UNCHANGED <<Secrets, forwarder_connected, remote_connected, server>>

StatusMessage(t, message) ==
    /\ HearsMessage(t, "status")
    /\ LET w0 == Read(ws, t, message) IN
       IF ~ws[t].password_sent
       THEN IF message = LOCAL_PASSWORD
            THEN /\ ws' = Send([w0 EXCEPT ![t].password_sent = TRUE], t, "ok")
                 /\ hub' = [hub EXCEPT
                              !.remote_connect = Append(@, t),
                              !.remote_disconnect = Append(@, t)]
                 /\ status_connected' = TRUE
            ELSE /\ ws' = RemoveAllListeners(Close(w0, t), t)
                 /\ UNCHANGED <<hub, status_connected>>
       ELSE /\ ws' = Ignore(w0, t)
            /\ UNCHANGED <<hub, status_connected>>
    /\ UNCHANGED <<Secrets, forwarder_connected, remote_connected, server>>

StatusError(t) ==
    /\ HearsError(t, "status")
    /\ status_connected' = FALSE
    /\ ws' = RemoveAllListeners(Terminate(ws, t), t)
    /\ UNCHANGED <<Secrets, forwarder_connected, remote_connected, server, hub>>

\* StatusClose that leaves the Status slot occupied
StatusClose_KeepsSlot(t) ==
    /\ HearsClose(t, "status")
    /\ ws' = RemoveAllListeners(Closed(ws, t), t)
    /\ UNCHANGED <<Secrets, forwarder_connected, status_connected,
                   remote_connected, server, hub>>

StatusClose(t) ==
    /\ HearsClose(t, "status")
    /\ status_connected' = FALSE
    /\ ws' = RemoveAllListeners(Closed(ws, t), t)
    /\ UNCHANGED <<Secrets, forwarder_connected, remote_connected, server, hub>>

\* ------------------------------------------------------------------------
\* /: the Controller
\* ------------------------------------------------------------------------
\* ButtplugExpressWebsocketServer.InitServer(wsClient), called on `server`
InitServer(w, t, engine) ==
    [w EXCEPT ![t].listeners = TRUE, ![t].bs = engine]

\* RemoteConnect without the check of the Sharer slot
RemoteConnect_NoSharerCheck(t) ==
    /\ Fresh(t)
    /\ IF remote_connected
       THEN /\ ws' = Close([ws EXCEPT ![t] = NewSocket("remote")], t)
            /\ UNCHANGED <<hub, remote_connected>>
       ELSE /\ ws' = InitServer([ws EXCEPT ![t] = NewSocket("remote")], t, server)
            /\ hub' = [hub EXCEPT !.local_disconnect = Append(@, t)]
            /\ remote_connected' = TRUE
    /\ UNCHANGED <<Secrets, forwarder_connected, status_connected, server>>

RemoteConnect(t) ==
    /\ Fresh(t)
    /\ IF ~forwarder_connected \/ remote_connected
       THEN /\ ws' = Close([ws EXCEPT ![t] = NewSocket("remote")], t)
            /\ UNCHANGED <<hub, remote_connected>>
       ELSE /\ ws' = InitServer([ws EXCEPT ![t] = NewSocket("remote")], t, server)
            /\ hub' = [hub EXCEPT !.local_disconnect = Append(@, t)]
            /\ remote_connected' = TRUE
    /\ UNCHANGED <<Secrets, forwarder_connected, status_connected, server>>

\* one turn of the loop over the messages of a batch, up to its await: the
\* message at position h.at publishes remote_connect when it is the handshake,
\* is passed to the engine, and the handler waits for the answer
SendMessage(w, t, h, h0, sc) ==
    LET w1 == IF h.msgs[h.at] = RequestServerInfo
              THEN [emitRemoteConnect(w, h0, sc) EXCEPT ![t].published = @ + 1]
              ELSE w
    IN [w1 EXCEPT ![t].awaiting = @ \cup {h}]

\* RemoteMessage that treats a frame FromJSON rejects like a wrong password
\* and closes the transport
RemoteMessage_ClosesOnMalformed(t, message) ==
    /\ HearsMessage(t, "remote")
    /\ LET w0 == Read(ws, t, message) IN
       IF ~ws[t].password_sent
       THEN IF message = REMOTE_PASSWORD
            THEN ws' = Send([w0 EXCEPT ![t].password_sent = TRUE], t, "ok")
            ELSE ws' = Close(w0, t)
       ELSE IF message \in Batches
            THEN LET h == [batch |-> ws[t].relayed + 1, at |-> 1,
                           msgs |-> FromJSON(message)]
                 IN ws' = SendMessage([w0 EXCEPT ![t].relayed = @ + 1],
                                      t, h, hub, status_connected)
            ELSE ws' = Close(Drop(w0, t), t)
    /\ UNCHANGED <<Secrets, forwarder_connected, status_connected,
                   remote_connected, server, hub>>

RemoteMessage(t, message) ==
    /\ HearsMessage(t, "remote")
    /\ LET w0 == Read(ws, t, message) IN
       IF ~ws[t].password_sent
       THEN IF message = REMOTE_PASSWORD
            THEN ws' = Send([w0 EXCEPT ![t].password_sent = TRUE], t, "ok")
            ELSE ws' = Close(w0, t)
       ELSE IF message \in Batches
            THEN LET h == [batch |-> ws[t].relayed + 1, at |-> 1,
                           msgs |-> FromJSON(message)]
                 IN ws' = SendMessage([w0 EXCEPT ![t].relayed = @ + 1],
                                      t, h, hub, status_connected)
            ELSE ws' = Drop(w0, t)
    /\ UNCHANGED <<Secrets, forwarder_connected, status_connected,
                   remote_connected, server, hub>>

\* the engine answers a message: the handler that awaits it resumes after
\* `await bs.SendMessage(m)`, sends the answer and goes on with the next
\* message of its batch.  The engine answers the calls it holds in any order.
\* send() on a socket that is not open delivers nothing; in the versions of
\* ws that throw there, the throw ends the handler.
RemoteResponse(t, h, throws) ==
    /\ ws[t].ep = "remote"
    /\ h \in ws[t].awaiting
    /\ throws => ws[t].readyState # "OPEN"
    /\ LET w0 == Send([ws EXCEPT ![t].awaiting = @ \ {h}], t,
                      Answer(h.batch, h.at))
       IN IF throws \/ h.at = Len(h.msgs)
          THEN ws' = w0
          ELSE ws' = SendMessage(w0, t, [h EXCEPT !.at = @ + 1], hub,
                                 status_connected)
    /\ UNCHANGED <<Secrets, forwarder_connected, status_connected,
                   remote_connected, server, hub>>

RemoteError(t) ==
    /\ HearsError(t, "remote")
    /\ ws' = Terminate(ws, t)
    /\ UNCHANGED <<Secrets, forwarder_connected, status_connected,
                   remote_connected, server, hub>>

\* RemoteClose that clears the Status slot as well
RemoteClose_ClearsStatus(t) ==
    /\ HearsClose(t, "remote")
    /\ ws' = emitRemoteDisconnect(Closed(ws, t), hub, status_connected)
    /\ remote_connected' = FALSE
    /\ status_connected' = FALSE
    /\ UNCHANGED <<Secrets, forwarder_connected, server, hub>>

\* RemoteClose whose remote_disconnect event raises into the handler when a
\* subscriber's transport is not open, so that the rest of the handler is
\* skipped
RemoteClose_Raises(t) ==
    /\ HearsClose(t, "remote")
    /\ ws' = emitRemoteDisconnect(Closed(ws, t), hub, status_connected)
    /\ remote_connected' =
            IF \E i \in 1..Len(hub.remote_disconnect) :
                    ws[hub.remote_disconnect[i]].readyState # "OPEN"
            THEN remote_connected
            ELSE FALSE
    /\ UNCHANGED <<Secrets, forwarder_connected, status_connected, server, hub>>

RemoteClose(t) ==
    /\ HearsClose(t, "remote")
    /\ ws' = emitRemoteDisconnect(Closed(ws, t), hub, status_connected)
    /\ remote_connected' = FALSE
    /\ UNCHANGED <<Secrets, forwarder_connected, status_connected, server, hub>>

\* a frame that is read as a batch and is none
Malformed(t, message) == ws[t].password_sent /\ message \notin Batches

\* The relay under peers whose frames after the password are batches, and
\* Status clients that send nothing after the password.
Next ==
    \/ \E t \in Callers : ForwarderConnect(t)
    \/ \E t \in Transports, m \in Inbound :
          ~Malformed(t, m) /\ ForwarderMessage(t, m)
    \/ \E t \in Transports : ForwarderError(t)
    \/ \E t \in Transports : ForwarderClose(t)
    \/ \E t \in Callers : StatusConnect(t)
    \/ \E t \in Transports, m \in Inbound :
          ~ws[t].password_sent /\ StatusMessage(t, m)
    \/ \E t \in Transports : StatusError(t)
    \/ \E t \in Transports : StatusClose(t)
    \/ \E t \in Callers : RemoteConnect(t)
    \/ \E t \in Transports, m \in Inbound :
          ~Malformed(t, m) /\ ws[t].relayed < MaxMsgs /\ RemoteMessage(t, m)
    \/ \E t \in Transports, throws \in BOOLEAN :
          \E h \in ws[t].awaiting : RemoteResponse(t, h, throws)
    \/ \E t \in Transports : RemoteError(t)
    \/ \E t \in Transports : RemoteClose(t)

Spec == Init /\ [][Next]_vars

\* The closing of a socket that the relay closed or destroyed finishes without
\* the peer: ws destroys the socket when the closing handshake times out, and
\* terminate() destroys it at once; the 'close' event follows.
CloseCompletes(t) ==
    /\ ws[t].readyState \in {"CLOSING", "TERMINATED"}
    /\ RemoteClose(t)

FairSpec == Spec /\ \A t \in Transports : WF_vars(CloseCompletes(t))

\* The relay under Controllers that send one batch more, and batches of more
\* than one message.
RelayNext ==
    \/ Next
    \/ \E t \in Transports, m \in Batches :
          ws[t].relayed < MaxMsgs + 1 /\ RemoteMessage(t, m)

RelaySpec == Init /\ [][RelayNext]_vars

\* The relay under one more transport that connects.
RaceNext ==
    \/ Next
    \/ \E t \in Transports : ForwarderConnect(t)
    \/ \E t \in Transports : StatusConnect(t)
    \/ \E t \in Transports : RemoteConnect(t)

RaceSpec == Init /\ [][RaceNext]_vars

\* The relay under a Sharer or a Controller that sends, after its password,
\* a frame that is no batch on its open session; one such frame at a time.
DropNext ==
    \/ Next
    \/ \E t \in Transports, m \in Inbound :
          /\ Malformed(t, m) /\ ws[t].readyState = "OPEN"
          /\ \A u \in Transports : ~ws[u].dropped
          /\ ForwarderMessage(t, m)
    \/ \E t \in Transports, m \in Inbound :
          /\ Malformed(t, m) /\ ws[t].readyState = "OPEN"
          /\ \A u \in Transports : ~ws[u].dropped
          /\ RemoteMessage(t, m)

DropSpec == Init /\ [][DropNext]_vars

\* The relay under a Status client that sends a frame after its password;
\* one such frame at a time.
IgnoreNext ==
    \/ Next
    \/ \E t \in Transports, m \in Inbound :
          /\ ws[t].password_sent
          /\ \A u \in Transports : ~ws[u].ignored
          /\ StatusMessage(t, m)

IgnoreSpec == Init /\ [][IgnoreNext]_vars

\* ------------------------------------------------------------------------
\* The browser side: the two password connectors of script.js
\* ------------------------------------------------------------------------
\* Initialize of a connector whose socket has opened: it creates the promise
\* p, registers throwConnectError and msgHandler, sends the password, which
\* is the first frame the relay reads from the transport, and awaits p
Initialize(t) ==
    /\ ws[t].ep \in {"forwarder", "remote"}
    /\ ws[t].readyState \in {"OPEN", "CLOSING"}
    /\ ws[t].p = "none"
    /\ ws[t].first = NoFrame /\ ws[t].sent = <<>>
    /\ ws' = [ws EXCEPT ![t].p = "pending", ![t].msgHandler = TRUE]
    /\ UNCHANGED <<Secrets, forwarder_connected, status_connected,
                   remote_connected, server, hub>>

\* msgHandler(ev) on the first frame of the relay: "ok" resolves p, any
\* other frame rejects it; Initialize resumes and its finally removes
\* msgHandler
msgHandler(t) ==
    /\ ws[t].msgHandler
    /\ ws[t].sent # <<>>
    /\ ws' = [ws EXCEPT
                ![t].p = IF Head(ws[t].sent) = "ok" THEN "resolved"
                                                    ELSE "rejected",
                ![t].msgHandler = FALSE]
    /\ UNCHANGED <<Secrets, forwarder_connected, status_connected,
                   remote_connected, server, hub>>

\* the 'close' event of a socket the relay has closed, after the frames the
\* relay sent: throwConnectError, registered until "ok" arrives, writes the
\* error to the page and does nothing else
throwConnectError(t) ==
    /\ ws[t].p \in {"pending", "rejected"}
    /\ ws[t].readyState \in {"CLOSING", "TERMINATED"}
    /\ ws[t].msgHandler => ws[t].sent = <<>>
    /\ ws' = [ws EXCEPT ![t].error = TRUE]
    /\ UNCHANGED <<Secrets, forwarder_connected, status_connected,
                   remote_connected, server, hub>>

\* The relay with browser connectors at the Sharer and Controller endpoints.
BrowserNext ==
    \/ Next
    \/ \E t \in Transports : Initialize(t)
    \/ \E t \in Transports : msgHandler(t)
    \/ \E t \in Transports : throwConnectError(t)

BrowserSpec == Init /\ [][BrowserNext]_vars

\* ------------------------------------------------------------------------
\* Vocabulary of the properties
\* ------------------------------------------------------------------------
Endpoints == {"forwarder", "status", "remote"}

\* the slot of the role served by an endpoint
Slot(endpoint) ==
    CASE endpoint = "forwarder" -> forwarder_connected
      [] endpoint = "status" -> status_connected
      [] endpoint = "remote" -> remote_connected

\* the secret the first frame on an endpoint is compared with
SecretOf(endpoint) ==
    IF endpoint = "remote" THEN REMOTE_PASSWORD ELSE LOCAL_PASSWORD

\* the session on transport t is authenticated and its transport is open
Authenticated(t) == ws[t].password_sent /\ ws[t].readyState = "OPEN"

\* the relay has admitted transport t to its endpoint and still serves it
Admitted(t) == ws[t].listeners /\ ws[t].readyState = "OPEN"

\* this step connects transport t to the endpoint
Connects(t, endpoint) ==
    ws[t].readyState = "NONE" /\ ws'[t].ep = endpoint

\* this step is the close or error callback of the Sharer transport s
SharerEnds(s) ==
    /\ ws[s].ep = "forwarder"
    /\ ws[s].listeners
    /\ ws'[s].readyState = "CLOSED"

TypeOK ==
    /\ forwarder_connected \in BOOLEAN
    /\ status_connected \in BOOLEAN
    /\ remote_connected \in BOOLEAN
    /\ server \in {0} \cup Transports
    /\ \A t \in Transports :
        /\ ws[t].ep \in Endpoints \cup {"none"}
        /\ ws[t].readyState \in {"NONE", "OPEN", "CLOSING", "TERMINATED", "CLOSED"}
        /\ \A h \in ws[t].awaiting :
            /\ h.batch \in 1..(MaxMsgs + 1)
            /\ h.at \in 1..Len(h.msgs)
        /\ ws[t].relayed \in 0..(MaxMsgs + 1)
        /\ ws[t].published \in 0..(MaxMsgs + 1)
        /\ ws[t].first \in Inbound \cup Batches \cup {NoFrame}
        /\ ws[t].dropped \in BOOLEAN
        /\ ws[t].ignored \in BOOLEAN
        /\ ws[t].p \in {"none", "pending", "resolved", "rejected"}
        /\ ws[t].msgHandler \in BOOLEAN
        /\ ws[t].error \in BOOLEAN

\* ------------------------------------------------------------------------
\* C1: at no instant do two sessions of the same role both exist in the
\* authenticated, not-yet-closed state.
\* ------------------------------------------------------------------------
C1_OneAuthenticatedSessionPerRole ==
    \A t, u \in Transports :
        (t # u /\ ws[t].ep = ws[u].ep) => ~(Authenticated(t) /\ Authenticated(u))

\* ------------------------------------------------------------------------
\* C2: in every reachable state the Controller slot and the Status slot are
\* occupied only if the Sharer slot is occupied.
\* ------------------------------------------------------------------------
C2_DependentSlotsNeedSharer ==
    (remote_connected \/ status_connected) => forwarder_connected

\* ------------------------------------------------------------------------
\* C3: a connection to the Controller or the Status endpoint that arrives
\* while the Sharer slot is empty is rejected: its transport is closed, no
\* handler is installed for it, no slot and no hub listener changes, and
\* nothing is ever sent to it or installed for it afterwards; every
\* connection these two endpoints admit comes after a successful Sharer
\* authentication.
\* ------------------------------------------------------------------------
C3_Step ==
    \A t \in Transports :
        /\ ((Connects(t, "status") \/ Connects(t, "remote"))
                /\ ~forwarder_connected)
            => /\ ws'[t].readyState = "CLOSING"
               /\ ~ws'[t].listeners
               /\ ws'[t].sent = <<>>
               /\ forwarder_connected' = forwarder_connected
               /\ status_connected' = status_connected
               /\ remote_connected' = remote_connected
               /\ hub' = hub
        /\ (ws[t].ep \in {"status", "remote"} /\ ws[t].readyState = "CLOSING"
                /\ ~ws[t].listeners)
            => ws'[t] = ws[t]
        /\ ((Connects(t, "status") \/ Connects(t, "remote")) /\ ws'[t].listeners)
            => \E s \in Transports :
                  ws[s].ep = "forwarder" /\ ws[s].first = LOCAL_PASSWORD

C3_NoAdmissionWithoutSharer == [][C3_Step]_vars

\* a Controller connection was rejected though no Controller holds the slot:
\* it came while the Sharer slot was empty
C3_Witness ==
    \E t \in Transports :
        /\ ws[t].ep = "remote"
        /\ ws[t].readyState = "CLOSING"
        /\ ~ws[t].listeners
        /\ ~forwarder_connected
        /\ ~remote_connected
        /\ \A u \in Transports : u # t => ws[u].ep # "remote"

\* ------------------------------------------------------------------------
\* C4: of two Sharer transports that are open before either has sent its
\* first message, exactly one is accepted: never are both admitted.
\* ------------------------------------------------------------------------
C4_OneSharerAdmitted ==
    \A t, u \in Transports :
        (t # u /\ ws[t].ep = "forwarder" /\ ws[u].ep = "forwarder")
            => ~(Admitted(t) /\ Admitted(u))

\* ------------------------------------------------------------------------
\* C5: when an authenticated Sharer session ends while a Controller session
\* is attached, the relay closes the Controller transport in that step, and
\* the closing finishes with the Controller slot empty, the Controller
\* client doing nothing.
\* ------------------------------------------------------------------------
C5_Step ==
    \A s, c \in Transports :
        (SharerEnds(s) /\ ws[s].password_sent /\ ws[c].ep = "remote" /\ Admitted(c))
            => ws'[c].readyState = "CLOSING"

C5_ControllerLeavesWithSharer ==
    /\ [][C5_Step]_vars
    /\ \A c \in Transports :
          (ws[c].ep = "remote" /\ ws[c].listeners /\ ws[c].readyState = "CLOSING")
              ~> (ws[c].readyState = "CLOSED" /\ ~remote_connected)

\* an authenticated Controller session is being closed by the relay and the
\* Sharer slot is empty: only the local_disconnect listener closes the
\* transport of a Controller whose first frame was the secret
C5_Witness ==
    \E c \in Transports :
        /\ ws[c].ep = "remote"
        /\ ws[c].readyState = "CLOSING"
        /\ ws[c].password_sent
        /\ ws[c].first = REMOTE_PASSWORD
        /\ ~forwarder_connected

\* ------------------------------------------------------------------------
\* C6: when an authenticated Sharer session ends while a Status session is
\* attached, the relay closes the Status transport and releases the Status
\* slot.
\* ------------------------------------------------------------------------
C6_Step ==
    \A s, u \in Transports :
        (SharerEnds(s) /\ ws[s].password_sent /\ ws[u].ep = "status"
                /\ Authenticated(u))
            => (ws'[u].readyState # "OPEN" /\ ~status_connected')

C6_StatusLeavesWithSharer == [][C6_Step]_vars

\* ------------------------------------------------------------------------
\* C7: after an authenticated Sharer session has ended while a Controller
\* and a Status session were active, no further frame is sent to that Status
\* transport.
\* ------------------------------------------------------------------------
C7_Step ==
    \A u \in Transports :
        (ws[u].ep = "status" /\ ws[u].orphaned)
            => Len(ws'[u].sent) <= Len(ws[u].sent)

C7_NoStatusFrameAfterSharerEnd == [][C7_Step]_vars

\* ------------------------------------------------------------------------
\* C8: the secret check happens once per transport, on the first message: a
\* transport whose first message did not match the secret of its role is
\* never authenticated by a later message.
\* ------------------------------------------------------------------------
C8_SecretCheckedOnFirstMessageOnly ==
    \A t \in Transports :
        ws[t].password_sent => ws[t].first = SecretOf(ws[t].ep)

\* ------------------------------------------------------------------------
\* C9: the slot of a role is marked occupied only by a step in which a
\* session of that role authenticates, so a session that does not
\* authenticate never marks it.
\* ------------------------------------------------------------------------
C9_Step ==
    \A e \in Endpoints :
        (~Slot(e) /\ Slot(e)')
            => \E t \in Transports :
                  ws'[t].ep = e /\ ~ws[t].password_sent /\ ws'[t].password_sent

C9_SlotMarkedOnlyByAuthentication == [][C9_Step]_vars

\* ------------------------------------------------------------------------
\* C10: on the Sharer endpoint a first message equal to the Sharer secret
\* makes the relay send "ok" and occupy the Sharer slot; a first message
\* with any other value makes the relay close the transport, send no "ok",
\* neither then nor later, and leave the Sharer slot as it was, so that an
\* empty slot stays empty.
\* ------------------------------------------------------------------------
C10_Step ==
    \A t \in Transports :
        (ws[t].ep = "forwarder" /\ ws[t].first = NoFrame /\ ws'[t].first # NoFrame)
            => IF ws'[t].first = LOCAL_PASSWORD
               THEN /\ ws'[t].sent = <<"ok">>
                    /\ ws'[t].readyState = "OPEN"
                    /\ forwarder_connected'
               ELSE /\ ws'[t].readyState = "CLOSING"
                    /\ ws'[t].sent = <<>>
                    /\ forwarder_connected' = forwarder_connected

C10_State ==
    \A t \in Transports :
        (ws[t].ep = "forwarder" /\ ws[t].first \notin {NoFrame, LOCAL_PASSWORD})
            => (ws[t].sent = <<>> /\ ws[t].readyState = "CLOSING"
                    /\ ~ws[t].password_sent)

C10_SharerFirstMessage == [][C10_Step]_vars /\ []C10_State

\* one Sharer transport was answered "ok" and holds the slot, another one was
\* closed without an answer after a wrong first message
C10_Witness ==
    \E t, u \in Transports :
        /\ ws[t].ep = "forwarder" /\ ws[u].ep = "forwarder"
        /\ ws[t].first = LOCAL_PASSWORD /\ ws[t].sent = <<"ok">>
        /\ forwarder_connected
        /\ ws[u].first \notin {NoFrame, LOCAL_PASSWORD}
        /\ ws[u].readyState = "CLOSING" /\ ws[u].sent = <<>>

\* ------------------------------------------------------------------------
\* C11: within one Controller session remote_connect is published at most
\* once: a handshake message that follows the first one of the session does
\* not publish it again.
\* ------------------------------------------------------------------------
C11_RemoteConnectPublishedOnce ==
    \A t \in Transports :
        ws[t].ep = "remote" => ws[t].published <= 1

\* ------------------------------------------------------------------------
\* C12: with a Sharer, a Status and a Controller session authenticated, the
\* step in which the Controller's handshake message is handled sends exactly
\* one connect frame to the Status transport.
\* ------------------------------------------------------------------------
C12_Step ==
    \A s, u, t \in Transports :
        (/\ ws[s].ep = "forwarder" /\ Authenticated(s)
         /\ ws[u].ep = "status" /\ Authenticated(u)
         /\ ws[t].ep = "remote" /\ Authenticated(t)
         /\ ws'[t].published = ws[t].published + 1)
            => ws'[u].sent = Append(ws[u].sent, "connect")

C12_OneConnectFrame == [][C12_Step]_vars

\* ------------------------------------------------------------------------
\* C13: with a Sharer, a Status and a Controller session authenticated, the
\* step in which the Controller transport closes (after a close or after an
\* error) sends exactly one disconnect frame to the Status transport and
\* leaves the Controller slot empty.
\* ------------------------------------------------------------------------
C13_Step ==
    \A s, u, t \in Transports :
        (/\ ws[s].ep = "forwarder" /\ Authenticated(s)
         /\ ws[u].ep = "status" /\ Authenticated(u)
         /\ ws[t].ep = "remote" /\ ws[t].password_sent
         /\ ws'[t].readyState = "CLOSED")
            => /\ ws'[u].sent = Append(ws[u].sent, "disconnect")
               /\ ~remote_connected'

C13_OneDisconnectFrame == [][C13_Step]_vars

\* ------------------------------------------------------------------------
\* C14: a connection to the Sharer endpoint made while a Sharer session is
\* authenticated and open is rejected at once: its transport is closed, gets
\* no frame and no listeners, and the Sharer slot, the engine and the first
\* session are left as they were.
\* ------------------------------------------------------------------------
C14_Step ==
    \A s, t \in Transports :
        (/\ ws[s].ep = "forwarder" /\ Authenticated(s)
         /\ Connects(t, "forwarder"))
            => /\ ws'[t].readyState = "CLOSING"
               /\ ~ws'[t].listeners
               /\ ws'[t].sent = <<>>
               /\ forwarder_connected' = forwarder_connected
               /\ server' = server
               /\ ws'[s] = ws[s]

C14_SecondSharerRejected == [][C14_Step]_vars

\* ------------------------------------------------------------------------
\* C15: a close, an error or a failed authentication of a Controller
\* transport changes neither the Sharer slot nor the Status slot and closes
\* no Sharer or Status transport; a close, an error or a failed authentication
\* of a Status transport changes neither the Sharer slot nor the Controller
\* slot and closes no Sharer or Controller transport.
\* ------------------------------------------------------------------------
C15_Fault(t, endpoint) ==
    IF endpoint = "remote"
    THEN \/ RemoteError(t)
         \/ RemoteClose(t)
         \/ \E m \in Inbound : /\ ~ws[t].password_sent
                                /\ m # REMOTE_PASSWORD
                                /\ RemoteMessage(t, m)
    ELSE \/ StatusError(t)
         \/ StatusClose(t)
         \/ \E m \in Inbound : /\ ~ws[t].password_sent
                                /\ m # LOCAL_PASSWORD
                                /\ StatusMessage(t, m)

C15_Step ==
    \A t \in Transports :
        \A endpoint \in {"remote", "status"} :
            C15_Fault(t, endpoint)
                => \A other \in Endpoints \ {endpoint} :
                      /\ Slot(other)' = Slot(other)
                      /\ \A u \in Transports :
                            ws[u].ep = other
                                => ws'[u].readyState = ws[u].readyState

C15_FaultsStayLocal == [][C15_Step]_vars

\* a Controller session has ended while a Sharer and a Status session are
\* authenticated and open
C15_Witness ==
    \E s, u, t \in Transports :
        /\ ws[s].ep = "forwarder" /\ Authenticated(s)
        /\ ws[u].ep = "status" /\ Authenticated(u)
        /\ ws[t].ep = "remote" /\ ws[t].listeners
        /\ ws[t].readyState = "CLOSED"

\* ------------------------------------------------------------------------
\* C16: the messages of a Controller transport are passed to the engine in
\* the order in which they arrived, and their answers are sent back in that
\* order, also when a batch arrives while a message of an earlier batch
\* awaits its answer.
\* ------------------------------------------------------------------------
\* a message passed to the engine in this step belongs to the batch that
\* arrived last
C16_Step ==
    \A t \in Transports :
        \A h \in ws'[t].awaiting \ ws[t].awaiting :
            h.batch >= ws[t].relayed

\* the answer to message `at` of batch `batch` comes before that to message
\* `at2` of batch `batch2` among the frames sent to t
C16_Before(t, batch, at, batch2, at2) ==
    \E i, j \in 1..Len(ws[t].sent) :
        /\ i < j
        /\ ws[t].sent[i] = Answer(batch, at)
        /\ ws[t].sent[j] = Answer(batch2, at2)

C16_State ==
    \A t \in Transports :
        \A m, m2 \in Batches :
            \A batch, batch2 \in 1..(MaxMsgs + 1) :
                \A at \in 1..Len(FromJSON(m)), at2 \in 1..Len(FromJSON(m2)) :
                    C16_Before(t, batch, at, batch2, at2)
                        => \/ batch < batch2
                           \/ batch = batch2 /\ at < at2

C16_ArrivalOrder == [][C16_Step]_vars /\ []C16_State

\* ------------------------------------------------------------------------
\* C17: the engine of a relaying Controller session is the engine that was
\* created for an authenticated, open Sharer session, while the Sharer slot
\* is occupied.
\* ------------------------------------------------------------------------
C17_EngineOfActiveSharer ==
    \A t \in Transports :
        (ws[t].ep = "remote" /\ Authenticated(t) /\ forwarder_connected)
            => \E s \in Transports :
                  /\ ws[s].ep = "forwarder"
                  /\ Authenticated(s)
                  /\ ws[t].bs = s

\* ------------------------------------------------------------------------
\* C18: while a Status session is authenticated, the last status frame sent
\* to it is the connect frame exactly when a Controller session that has
\* sent its handshake message is attached; a Status session that was sent no
\* status frame counts as told that none is attached.
\* ------------------------------------------------------------------------
\* the last connect or disconnect frame sent to u
C18_Latest(u) ==
    LET frames == SelectSeq(ws[u].sent,
                            LAMBDA f : f \in {"connect", "disconnect"})
    IN IF frames = <<>> THEN NoFrame ELSE frames[Len(frames)]

C18_StatusShowsController ==
    \A u \in Transports :
        (ws[u].ep = "status" /\ Authenticated(u))
            => (C18_Latest(u) = "connect"
                  <=> \E t \in Transports :
                         /\ ws[t].ep = "remote"
                         /\ ws[t].readyState # "CLOSED"
                         /\ ws[t].published > 0)

\* ------------------------------------------------------------------------
\* C19: while a Sharer session is authenticated and open, of two Controller
\* transports that connect before either has sent a frame exactly one is
\* accepted; the other is closed, gets no listeners and no frame.
\* ------------------------------------------------------------------------
\* the Controller transport t, as it will be after this step, was rejected
C19_Rejected(t) ==
    /\ ws'[t].readyState = "CLOSING"
    /\ ~ws'[t].listeners
    /\ ws'[t].sent = <<>>

\* t connects second, u is the silent Controller transport that connected
\* before it, and no third Controller transport is attached
C19_Step ==
    \A s, u, t \in Transports :
        (/\ ws[s].ep = "forwarder" /\ Authenticated(s)
         /\ ws[u].ep = "remote" /\ ws[u].first = NoFrame
         /\ ws[u].readyState \in {"OPEN", "CLOSING"}
         /\ \A v \in Transports \ {u} :
               ws[v].ep = "remote"
                   => ~ws[v].listeners \/ ws[v].readyState = "CLOSED"
         /\ Connects(t, "remote"))
            => /\ ws'[u] = ws[u]
               /\ \/ ws[u].listeners /\ C19_Rejected(t)
                  \/ C19_Rejected(u) /\ ws'[t].listeners
                                     /\ ws'[t].readyState = "OPEN"

C19_OneControllerAccepted == [][C19_Step]_vars

\* ------------------------------------------------------------------------
\* C20: a transport is authenticated by a step exactly when that step reads
\* its first message and the message equals the secret of its endpoint: the
\* local secret on the Sharer and Status endpoints, the Controller secret on
\* the Controller endpoint; the secret of the other side authenticates
\* nothing.
\* ------------------------------------------------------------------------
C20_Step ==
    \A t \in Transports :
        ws[t].ep \in Endpoints
            => ((~ws[t].password_sent /\ ws'[t].password_sent)
                  <=> (/\ ws[t].first = NoFrame
                       /\ ws'[t].first = SecretOf(ws[t].ep)))

C20_AuthenticatedByOwnSecret == [][C20_Step]_vars

\* ------------------------------------------------------------------------
\* C21: when one of the two passwords is unset or empty at start, no
\* websocket endpoint is registered: no transport is ever handed to the
\* relay, so none is admitted or authenticated, no hub listener is
\* registered and no slot is occupied.
\* ------------------------------------------------------------------------
C21_NoEndpointsWithoutSecrets ==
    (~IsSet(LOCAL_PASSWORD) \/ ~IsSet(REMOTE_PASSWORD))
        => /\ \A t \in Transports : ws[t] = NoSocket
           /\ ~forwarder_connected /\ ~status_connected /\ ~remote_connected
           /\ hub.local_disconnect = <<>>
           /\ hub.remote_connect = <<>>
           /\ hub.remote_disconnect = <<>>
           /\ server = 0

\* the relay was started with one password set and the other one missing
C21_Witness ==
    /\ IsSet(LOCAL_PASSWORD)
    /\ ~IsSet(REMOTE_PASSWORD)
    /\ \A t \in Transports : ws[t] = NoSocket

\* ------------------------------------------------------------------------
\* C22: every listener registered on the hub belongs to a session that is
\* authenticated and open: a session registers its listeners only after it
\* has authenticated, and they are removed when it ends.
\* ------------------------------------------------------------------------
\* the transports whose listeners hang on the hub
C22_Registered ==
    {t \in Transports :
        \E event \in {"local_disconnect", "remote_connect", "remote_disconnect"} :
            \E i \in 1..Len(hub[event]) : hub[event][i] = t}

C22_ListenersOfLiveSessions ==
    \A t \in C22_Registered : Authenticated(t)

\* ------------------------------------------------------------------------
\* C23: the close or the error of a Sharer transport that was admitted but
\* has not authenticated leaves the Sharer slot as it was and closes no
\* Controller transport.
\* ------------------------------------------------------------------------
C23_Step ==
    \A t \in Transports :
        (~ws[t].password_sent /\ (ForwarderClose(t) \/ ForwarderError(t)))
            => /\ forwarder_connected' = forwarder_connected
               /\ \A c \in Transports :
                     ws[c].ep = "remote"
                         => ws'[c].readyState = ws[c].readyState

C23_UnauthenticatedSharerEndsQuietly == [][C23_Step]_vars

\* ------------------------------------------------------------------------
\* C24: after a transport has closed the relay calls send() on it no more,
\* neither from a hub listener nor with an answer of the engine.
\* ------------------------------------------------------------------------
\* t is named in the list ls of hub listeners
C24_Listens(ls, t) == \E i \in 1..Len(ls) : ls[i] = t

\* this step calls send() on transport t: a handler of t sends an answer of
\* the engine, or remote_connect or remote_disconnect is published while the
\* Status slot is occupied and a listener of t hangs on the hub
C24_Sends(t) ==
    \/ \E h \in ws[t].awaiting, throws \in BOOLEAN : RemoteResponse(t, h, throws)
    \/ /\ status_connected
       /\ C24_Listens(hub.remote_connect, t)
       /\ \E c \in Transports : ws'[c].published > ws[c].published
    \/ /\ status_connected
       /\ C24_Listens(hub.remote_disconnect, t)
       /\ \E c \in Transports : RemoteClose(c)

C24_Step ==
    \A t \in Transports :
        ws[t].readyState = "CLOSED" => ~C24_Sends(t)

C24_NoSendAfterClosed == [][C24_Step]_vars

\* the same for the hub listeners alone
C24_HubStep ==
    \A t \in Transports :
        (ws[t].readyState = "CLOSED" /\ ws[t].ep = "status") => ~C24_Sends(t)

C24_NoHubSendAfterClosed == [][C24_HubStep]_vars

\* ------------------------------------------------------------------------
\* C25: the end of an authenticated Sharer session, reported as an error or
\* as a close, clears the Sharer slot and publishes local_disconnect in one
\* step, and is reported once: after the step the relay listens to no
\* further event of that transport.
\* ------------------------------------------------------------------------
C25_Step ==
    \A t \in Transports :
        (ws[t].password_sent /\ (ForwarderError(t) \/ ForwarderClose(t)))
            => /\ ~forwarder_connected'
               /\ \A i \in 1..Len(hub.local_disconnect) :
                     ws[hub.local_disconnect[i]].readyState = "OPEN"
                         => ws'[hub.local_disconnect[i]].readyState = "CLOSING"
               /\ ~ws'[t].listeners

C25_SharerEndReportedOnce == [][C25_Step]_vars

\* an authenticated Sharer session has ended by an error and the Controller
\* that was attached to it is being closed
C25_Witness ==
    \E s, c \in Transports :
        /\ ws[s].ep = "forwarder"
        /\ ws[s].readyState = "CLOSED"
        /\ ~ws[s].listeners
        /\ ~forwarder_connected
        /\ ws[c].ep = "remote"
        /\ ws[c].password_sent
        /\ ws[c].readyState = "CLOSING"
        /\ ws[c].first = REMOTE_PASSWORD


\* ------------------------------------------------------------------------
\* C26: after a Sharer session with an attached Controller and an attached
\* Status has ended and a new Sharer has connected and authenticated, no
\* slot stays occupied by a session of the previous Sharer, so that a new
\* Controller and a new Status connection can be admitted.  Transports
\* connect in the order of their numbers: the new Sharer is the
\* authenticated Sharer transport that connected after the Status session
\* the previous Sharer left behind.
\* ------------------------------------------------------------------------
C26_NoSlotOfPreviousSharer ==
    \A s, u \in Transports :
        (/\ ws[s].ep = "forwarder" /\ Authenticated(s)
         /\ ws[u].ep = "status" /\ ws[u].orphaned
         /\ u < s)
            => ~(status_connected /\ Authenticated(u))


\* ------------------------------------------------------------------------
\* C27: publishing remote_connect, remote_disconnect or local_disconnect
\* while the transport of a subscriber is already closed never raises into
\* the publisher; the rest of the publishing handler runs: the Controller
\* slot is released after remote_disconnect, the Sharer slot is clear and
\* the listeners of the Sharer transport are removed after local_disconnect,
\* and the message is passed to the engine after remote_connect.
\* ------------------------------------------------------------------------
C27_Gone(ls) ==
    \E i \in 1..Len(ls) : ws[ls[i]].readyState = "CLOSED"

C27_Step ==
    \A t \in Transports :
        /\ (RemoteClose(t) /\ C27_Gone(hub.remote_disconnect))
                => ~remote_connected'
        /\ ((ForwarderError(t) \/ ForwarderClose(t))
                    /\ C27_Gone(hub.local_disconnect))
                => (~forwarder_connected' /\ ~ws'[t].listeners)
        /\ \A m \in Batches :
              (RemoteMessage(t, m) /\ ws[t].password_sent
                    /\ C27_Gone(hub.remote_connect))
                => \E h \in ws'[t].awaiting : h.batch = ws[t].relayed + 1

C27_PublishNeverRaises == [][C27_Step]_vars

\* a second Controller was admitted after the first one had closed, and was
\* closed by the local_disconnect of the ending Sharer session
C27_Witness ==
    \E s, c, d \in Transports :
        /\ ws[s].ep = "forwarder" /\ ws[s].readyState = "CLOSED"
        /\ ~forwarder_connected
        /\ ws[c].ep = "remote" /\ ws[c].listeners
        /\ ws[c].readyState = "CLOSED"
        /\ ws[d].ep = "remote" /\ ws[d].password_sent
        /\ ws[d].first = REMOTE_PASSWORD /\ ws[d].readyState = "CLOSING"


\* ------------------------------------------------------------------------
\* C28: a malformed batch received from an authenticated Sharer or
\* Controller session is dropped: the step changes no slot, publishes no
\* event and sends no frame, the transport stays open and authenticated with
\* its handlers, and a later well-formed batch of that session is still
\* read and, from a Controller, passed to the engine.
\* ------------------------------------------------------------------------
C28_Step ==
    \A t \in Transports :
        /\ \A m \in Inbound :
              (/\ Malformed(t, m) /\ Authenticated(t)
               /\ ForwarderMessage(t, m) \/ RemoteMessage(t, m))
                  => /\ forwarder_connected' = forwarder_connected
                     /\ status_connected' = status_connected
                     /\ remote_connected' = remote_connected
                     /\ hub' = hub
                     /\ server' = server
                     /\ \A u \in Transports :
                          /\ ws'[u].sent = ws[u].sent
                          /\ ws'[u].published = ws[u].published
                          /\ ws'[u].readyState = ws[u].readyState
                          /\ ws'[u].awaiting = ws[u].awaiting
                          /\ ws'[u].listeners = ws[u].listeners
                     /\ Authenticated(t)'
                     /\ ws'[t].listeners
                     /\ ws'[t].relayed = ws[t].relayed
        /\ (ws[t].dropped /\ Authenticated(t)) => HearsMessage(t, ws[t].ep)
        /\ \A b \in Batches :
              (ws[t].dropped /\ Authenticated(t) /\ RemoteMessage(t, b))
                  => \E h \in ws'[t].awaiting :
                        h.batch = ws[t].relayed + 1 /\ h.msgs = FromJSON(b)

C28_MalformedBatchDropped == [][C28_Step]_vars

\* a Controller session that dropped a malformed batch is open and was
\* answered a batch
C28_Witness ==
    \E t \in Transports :
        /\ ws[t].ep = "remote" /\ ws[t].dropped /\ Authenticated(t)
        /\ ws[t].listeners
        /\ ws[t].sent = <<"ok", Answer(1, 1)>>


\* ------------------------------------------------------------------------
\* C29: no message received on a Sharer or Controller transport is parsed
\* or passed to the engine unless the first message of that transport was
\* the secret of its role and the relay answered it with "ok".
\* ------------------------------------------------------------------------
C29_Parsed(t, m) ==
    /\ ws[t].password_sent
    /\ ForwarderMessage(t, m) \/ RemoteMessage(t, m)

C29_Step ==
    \A t \in Transports, m \in Inbound \cup Batches :
        C29_Parsed(t, m)
            => /\ ws[t].first = SecretOf(ws[t].ep)
               /\ ws[t].sent # <<>>
               /\ Head(ws[t].sent) = "ok"

C29_ParsedOnlyAfterOk == [][C29_Step]_vars


\* ------------------------------------------------------------------------
\* C30: remote_disconnect is published, and a disconnect frame sent to
\* Status, only when a Controller session that had authenticated ends: every
\* step that sends a disconnect frame is the close of a Controller transport
\* whose password was accepted.
\* ------------------------------------------------------------------------
C30_Step ==
    \A u \in Transports :
        (/\ ws[u].ep = "status"
         /\ Len(ws'[u].sent) > Len(ws[u].sent)
         /\ ws'[u].sent[Len(ws'[u].sent)] = "disconnect")
            => \E t \in Transports : ws[t].password_sent /\ RemoteClose(t)

C30_DisconnectOnlyAfterAuthentication == [][C30_Step]_vars


\* ------------------------------------------------------------------------
\* C31: in every reachable state in which all transports have been closed
\* and all their close and error events have been processed, the three
\* slots are empty.  A transport has ended when it has closed, or when the
\* relay has called close() on it and listens to it no more.
\* ------------------------------------------------------------------------
C31_Ended(t) ==
    \/ ws[t].readyState \in {"NONE", "CLOSED"}
    \/ ws[t].readyState \in {"CLOSING", "TERMINATED"} /\ ~ws[t].listeners

C31_NoSlotLeak ==
    (\A t \in Transports : C31_Ended(t))
        => (~forwarder_connected /\ ~status_connected /\ ~remote_connected)

\* a Sharer, an authenticated Status and an admitted Controller session have
\* all closed and nothing else is open
C31_Witness ==
    /\ \A t \in Transports : C31_Ended(t)
    /\ \E s, u, c \in Transports :
        /\ ws[s].ep = "forwarder" /\ ws[s].readyState = "CLOSED"
        /\ ws[u].ep = "status" /\ ws[u].readyState = "CLOSED"
        /\ \E i \in 1..Len(hub.remote_disconnect) : hub.remote_disconnect[i] = u
        /\ ws[c].ep = "remote" /\ ws[c].readyState = "CLOSED"
        /\ ws[c].listeners


\* ------------------------------------------------------------------------
\* C32: after a Status session has authenticated, any further message that
\* arrives on its transport is ignored: the step changes no slot, publishes
\* no event, registers no hub handler, sends no frame and leaves every
\* transport as it is.
\* ------------------------------------------------------------------------
C32_Step ==
    \A t \in Transports, m \in Inbound :
        (ws[t].ep = "status" /\ ws[t].password_sent /\ StatusMessage(t, m))
            => /\ forwarder_connected' = forwarder_connected
               /\ status_connected' = status_connected
               /\ remote_connected' = remote_connected
               /\ hub' = hub
               /\ server' = server
               /\ \A u \in Transports :
                    /\ ws'[u].sent = ws[u].sent
                    /\ ws'[u].published = ws[u].published
                    /\ ws'[u].readyState = ws[u].readyState
                    /\ ws'[u].listeners = ws[u].listeners
                    /\ ws'[u].password_sent = ws[u].password_sent
                    /\ ws'[u].awaiting = ws[u].awaiting

C32_StatusMessagesIgnored == [][C32_Step]_vars

\* an authenticated Status session that was sent a further frame is as it
\* was after its password
C32_Witness ==
    \E t \in Transports :
        /\ ws[t].ep = "status" /\ ws[t].ignored /\ Authenticated(t)
        /\ ws[t].listeners /\ status_connected
        /\ ws[t].sent = <<"ok">>
        /\ hub.remote_connect = <<t>> /\ hub.remote_disconnect = <<t>>


\* ------------------------------------------------------------------------
\* C33: Initialize of both browser password connectors finishes once the
\* relay has answered or closed the socket, and its message handler is
\* removed in every outcome: when the connector has seen the socket close,
\* its promise is settled and msgHandler is registered no more.
\* ------------------------------------------------------------------------
C33_InitializeSettles ==
    \A t \in Transports :
        ws[t].error => (ws[t].p # "pending" /\ ~ws[t].msgHandler)

====
